---------------------------- MODULE Spec2Model ----------------------------
(***************************************************************************)
(* Medal table server (src/server.js): the fetch / normalise / rank        *)
(* pipeline behind GET /api/medals.                                        *)
(*                                                                         *)
(* JavaScript values are records with a kind field k:                      *)
(*   number  v      a finite number (the counts of this model are whole)   *)
(*   nan            the not-a-number value                                 *)
(*   numstr  v      a string of digits that reads as the number v          *)
(*   badstr         a string that is no number, such as "x"                *)
(*   undefined      a missing cell or property                             *)
(* score is kept in half points (twice the source's value) so that the     *)
(* weight 1.5 stays whole; the order of scores is unchanged by that.       *)
(***************************************************************************)
EXTENDS Integers, Sequences, FiniteSets

VARIABLES
    pc,       \* where the request stands: idle, fetch, body, curl, ret, threw, done
    site,     \* which call of the transport layer is running: api, page, wiki
    err,      \* the error caught by the outer catch of httpGetJson/httpGetText
    stdout,   \* what curl printed, once it has succeeded
    ret,      \* the value httpGetJson/httpGetText resolved with
    thrown,   \* the error a rejected promise carries
    inflight, \* the network or process operations now outstanding
    calls,    \* every transport call made by this request, in order
    apiErr,   \* the error fetchMedals caught from fetchApiJson
    pageHtml, \* fetchMedals' local html (the primary page's text)
    parsed,   \* what parseFromHtml did with that html
    wikiHtml, \* fetchMedals' local wikiHtml
    teams,    \* fetchMedals' local teams / its result
    sent,     \* the responses written for this request
    logged,   \* what the handler passed to console.error
    curlErr,  \* the error caught by the inner catch of httpGetJson/httpGetText
    entries,  \* normaliser input: a list of raw records
    normed,   \* the list after withScore
    sorted,   \* the list after sortTeams
    ppc       \* where the normalise-and-rank run stands

vars == <<pc, site, err, stdout, ret, thrown, inflight, calls, apiErr, pageHtml,
          parsed, wikiHtml, teams, sent, logged, curlErr, entries, normed, sorted,
          ppc>>

pipeVars == <<pc, site, err, stdout, ret, thrown, inflight, calls, apiErr, pageHtml,
              parsed, wikiHtml, teams, sent, logged, curlErr>>

pureVars == <<entries, normed, sorted, ppc>>

-----------------------------------------------------------------------------
(* Bounds *)

\* most rows in a JSON standings array
MaxRows == 2
\* most matches of one of the regular expressions in a page
MaxMatches == 1
\* most records in one normalise-and-rank run
MaxTeams == 3

-----------------------------------------------------------------------------
(* JavaScript values *)

None == [k |-> "none"]
Undef == [k |-> "undefined", v |-> 0]
NaN == [k |-> "nan", v |-> 0]
Num(n) == [k |-> "number", v |-> n]
NumStr(n) == [k |-> "numstr", v |-> n]
BadStr == [k |-> "badstr", v |-> 0]

\* Number(x)
Number(x) ==
    CASE x.k = "number" -> x
      [] x.k = "nan" -> NaN
      [] x.k = "numstr" -> Num(x.v)
      [] x.k = "badstr" -> NaN
      [] x.k = "undefined" -> NaN

\* the truthiness of x in a conditional
Truthy(x) ==
    CASE x.k = "number" -> x.v # 0
      [] x.k = "nan" -> FALSE
      [] x.k = "numstr" -> TRUE
      [] x.k = "badstr" -> TRUE
      [] x.k = "undefined" -> FALSE

IsNaN(x) == x.k = "nan"

\* x + y, x - y, x * n on numbers
Add(x, y) == IF IsNaN(x) \/ IsNaN(y) THEN NaN ELSE Num(x.v + y.v)
Sub(x, y) == IF IsNaN(x) \/ IsNaN(y) THEN NaN ELSE Num(x.v - y.v)
Times(x, n) == IF IsNaN(x) THEN NaN ELSE Num(x.v * n)

\* x !== y on numbers: NaN differs from everything, itself included
StrictNeq(x, y) == IsNaN(x) \/ IsNaN(y) \/ x.v # y.v

\* x ?? d
Coalesce(x, d) == IF x.k = "undefined" THEN d ELSE x

-----------------------------------------------------------------------------
(* Record Normalizer and Ranking Sorter *)

\* withScore(entry): {...entry, gold, silver, bronze, total, score}
withScore(entry) ==
    LET g == Number(entry.gold)
        s == Number(entry.silver)
        b == Number(entry.bronze)
    IN  [code |-> entry.code, name |-> entry.name,
         gold |-> g, silver |-> s, bronze |-> b,
         total |-> IF Truthy(entry.total) THEN Number(entry.total)
                   ELSE Add(Add(g, s), b),
         score |-> Add(Add(Times(g, 6), Times(s, 3)), Times(b, 2))]

\* the comparator handed to list.sort
comparator(a, b) ==
    IF StrictNeq(b.score, a.score) THEN Sub(b.score, a.score)
    ELSE IF StrictNeq(b.gold, a.gold) THEN Sub(b.gold, a.gold)
    ELSE IF StrictNeq(b.silver, a.silver) THEN Sub(b.silver, a.silver)
    ELSE IF StrictNeq(b.bronze, a.bronze) THEN Sub(b.bronze, a.bronze)
    ELSE Sub(Coalesce(b.total, Num(0)), Coalesce(a.total, Num(0)))

\* how Array.prototype.sort reads a comparator's result: its sign, NaN as 0
SortOrder(a, b) ==
    LET c == comparator(a, b)
    IN  IF IsNaN(c) THEN 0 ELSE IF c.v < 0 THEN -1 ELSE IF c.v > 0 THEN 1 ELSE 0

\* Array.prototype.sort on a list shorter than 64 elements (Node's TimSort):
\* the leading run is counted, a strictly descending one is reversed, and
\* the remaining elements are put in place by binary insertion.

RECURSIVE RunEnd(_, _, _)
\* the last position of the run that starts at 1, idx being the next to test
RunEnd(list, idx, descending) ==
    IF idx > Len(list) THEN idx - 1
    ELSE LET order == SortOrder(list[idx], list[idx - 1])
         IN  IF (descending /\ order >= 0) \/ (~descending /\ order < 0)
             THEN idx - 1
             ELSE RunEnd(list, idx + 1, descending)

Reverse(list) == [i \in 1..Len(list) |-> list[Len(list) + 1 - i]]

RECURSIVE InsertionPoint(_, _, _, _)
\* where pivot belongs among list[left..right-1], by binary search
InsertionPoint(list, pivot, left, right) ==
    IF left >= right THEN left
    ELSE LET mid == left + ((right - left) \div 2)
         IN  IF SortOrder(pivot, list[mid]) < 0
             THEN InsertionPoint(list, pivot, left, mid)
             ELSE InsertionPoint(list, pivot, mid + 1, right)

RECURSIVE BinaryInsertionSort(_, _)
\* list[1..start-1] is in order; the elements from start on are inserted
BinaryInsertionSort(list, start) ==
    IF start > Len(list) THEN list
    ELSE LET pivot == list[start]
             at == InsertionPoint(list, pivot, 1, start)
         IN  BinaryInsertionSort(
                 SubSeq(list, 1, at - 1) \o <<pivot>> \o SubSeq(list, at, start - 1)
                     \o SubSeq(list, start + 1, Len(list)),
                 start + 1)

ArraySort(list) ==
    IF Len(list) < 2 THEN list
    ELSE LET descending == SortOrder(list[2], list[1]) < 0
             run == RunEnd(list, 3, descending)
             made == IF descending
                     THEN Reverse(SubSeq(list, 1, run))
                              \o SubSeq(list, run + 1, Len(list))
                     ELSE list
         IN  BinaryInsertionSort(made, run + 1)

\* sortTeams(list): list.sort(comparator)
sortTeams(list) == ArraySort(list)

-----------------------------------------------------------------------------
(* Source Extractors *)

Throw(e) == [k |-> "throw", error |-> e]
Return(x) == [k |-> "return", value |-> x]
Error(m) == [k |-> "error", from |-> "code", msg |-> m]

SeqsUpTo(S, n) == UNION { [1..m -> S] : m \in 0..n }

\* name.slice(0, 3).toUpperCase() for the names of this model
Code3(name) ==
    CASE name = "Norway" -> "NOR"
      [] name = "Italy" -> "ITA"
      [] OTHER -> ""

\* a row of a standings array is null (no object) or has cells:
\* [countryCell, gold, silver, bronze, total]
NullRow == [k |-> "null"]
Row(c) == [k |-> "row", cells |-> c]

\* the raw record the API and embedded-JSON mappers build from one row;
\* reading .cells of a null row or .text of a null cell throws a TypeError
rowEntry(row) ==
    IF row.k = "null" THEN Throw(Error("TypeError"))
    ELSE LET c == row.cells.country
         IN  IF c.k = "null" THEN Throw(Error("TypeError"))
             ELSE LET name == CASE c.k = "object" -> c.text
                                [] c.k = "string" -> c.s
                                [] OTHER -> ""
                  IN  Return([code |-> IF name # "" THEN Code3(name) ELSE "",
                              name |-> name,
                              gold |-> row.cells.gold,
                              silver |-> row.cells.silver,
                              bronze |-> row.cells.bronze,
                              total |-> row.cells.total])

\* rows.map(row => withScore({...})): throws when a row does
mapRows(rows) ==
    IF \E i \in 1..Len(rows) : rowEntry(rows[i]).k = "throw"
    THEN Throw(Error("TypeError"))
    ELSE Return([i \in 1..Len(rows) |-> withScore(rowEntry(rows[i]).value)])

\* JSON.parse(text)
JSONparse(text) ==
    IF text.json THEN Return(text.data) ELSE Throw(Error("SyntaxError"))

\* fetchApiJson without its check for an empty list
fetchApiJsonMapNoThrow(data) ==
    LET rows == IF data.standings THEN data.rows ELSE <<>>
        m == mapRows(rows)
    IN  IF m.k = "throw" THEN m ELSE Return(sortTeams(m.value))

\* fetchApiJson after httpGetJson has resolved with data
fetchApiJsonMap(data) ==
    LET rows == IF data.standings THEN data.rows ELSE <<>>
        m == mapRows(rows)
    IN  IF m.k = "throw" THEN m
        ELSE IF Len(m.value) = 0
             THEN Throw(Error("API returned no medal entries"))
             ELSE Return(sortTeams(m.value))

\* the record built from one match of the inline or table-row pattern
matchEntry(m) ==
    [code |-> m.code, name |-> m.name, gold |-> m.gold, silver |-> m.silver,
     bronze |-> m.bronze, total |-> m.total]

matchTeams(ms) == [i \in 1..Len(ms) |-> withScore(matchEntry(ms[i]))]

\* parseFromHtml with a JSON strategy whose failure ends the scan
parseFromHtmlScanAbort(html) ==
    LET jsonMatch == html.embedded.k # "nomatch"
        standings == IF jsonMatch THEN JSONparse(html.embedded) ELSE Throw(None)
        m == IF standings.k = "return" THEN mapRows(standings.value)
             ELSE Throw(None)
        inl == matchTeams(html.inline)
    IN  IF jsonMatch /\ m.k = "throw"
        THEN [ran |-> <<"json">>, found |-> <<>>, caught |-> TRUE]
        ELSE IF jsonMatch /\ Len(m.value) > 0
        THEN [ran |-> <<"json">>, found |-> m.value, caught |-> FALSE]
        ELSE IF Len(inl) # 0
        THEN [ran |-> (IF jsonMatch THEN <<"json">> ELSE <<>>) \o <<"inline">>,
              found |-> inl, caught |-> FALSE]
        ELSE [ran |-> (IF jsonMatch THEN <<"json">> ELSE <<>>)
                          \o <<"inline", "table">>,
              found |-> matchTeams(html.table), caught |-> FALSE]

\* parseFromHtml before its final sort: the strategies run, the records
\* found, and whether the catch of the embedded-JSON strategy was entered.
\* html.embedded is what the medalStandings pattern matched, html.inline and
\* html.table are the matches of the two other patterns.
parseFromHtmlScan(html) ==
    LET jsonMatch == html.embedded.k # "nomatch"
        standings == IF jsonMatch THEN JSONparse(html.embedded) ELSE Throw(None)
        m == IF standings.k = "return" THEN mapRows(standings.value)
             ELSE Throw(None)
        first == jsonMatch /\ m.k = "return" /\ Len(m.value) > 0
        caught == jsonMatch /\ m.k = "throw"
        inl == matchTeams(html.inline)
    IN  IF first
        THEN [ran |-> <<"json">>, found |-> m.value, caught |-> FALSE]
        ELSE IF Len(inl) # 0
        THEN [ran |-> (IF jsonMatch THEN <<"json">> ELSE <<>>) \o <<"inline">>,
              found |-> inl, caught |-> caught]
        ELSE [ran |-> (IF jsonMatch THEN <<"json">> ELSE <<>>)
                          \o <<"inline", "table">>,
              found |-> matchTeams(html.table), caught |-> caught]

\* parseFromHtml(html): it has no way to throw
parseFromHtml(html) ==
    LET scan == parseFromHtmlScan(html)
    IN  [ran |-> scan.ran, caught |-> scan.caught, teams |-> sortTeams(scan.found)]

\* the record built from one match of the wiki row pattern
wikiEntry(m) ==
    [code |-> Code3(m.name), name |-> m.name, gold |-> m.gold,
     silver |-> m.silver, bronze |-> m.bronze, total |-> m.total]

\* parseWikipedia(html): html.wikitable is the first matching table's rows
parseWikipedia(html) ==
    IF html.wikitable.k = "nomatch" THEN <<>>
    ELSE sortTeams([i \in 1..Len(html.wikitable.rows) |->
                       withScore(wikiEntry(html.wikitable.rows[i]))])

-----------------------------------------------------------------------------
(* What the upstream sources may answer *)

Countries ==
    { [k |-> "string", s |-> "Norway"], [k |-> "object", text |-> "Italy"],
      [k |-> "null"] }

\* the cells of one row of the structured API's answer
ApiCells ==
    [country : Countries, gold : {Num(0), Num(1), BadStr}, silver : {Num(0)},
     bronze : {NumStr(1)}, total : {Undef}]

ApiRows == {NullRow} \cup { Row(c) : c \in ApiCells }

\* the parsed answer: with or without medalStandings[0].rows
ApiData ==
    { [k |-> "object", standings |-> FALSE, rows |-> <<>>] } \cup
    { [k |-> "object", standings |-> TRUE, rows |-> r] :
        r \in SeqsUpTo(ApiRows, MaxRows) }

\* what curl may print for the API: no JSON, or the text of an answer
ApiTexts ==
    { [k |-> "text", json |-> FALSE] } \cup
    { [k |-> "text", json |-> TRUE, data |-> d] : d \in ApiData }

\* the rows of the JSON embedded in the primary page
EmbeddedRows ==
    { NullRow,
      Row([country |-> [k |-> "string", s |-> "Norway"], gold |-> NumStr(1),
           silver |-> NumStr(0), bronze |-> NumStr(0), total |-> NumStr(1)]),
      Row([country |-> [k |-> "object", text |-> "Italy"], gold |-> Num(2),
           silver |-> Num(0), bronze |-> Num(0), total |-> Undef]),
      Row([country |-> [k |-> "string", s |-> "Italy"], gold |-> Undef,
           silver |-> Undef, bronze |-> Undef, total |-> Undef]) }

\* what the medalStandings pattern finds in a page: nothing, a text that is
\* no JSON, or the JSON text of a standings array (data: its first rows)
Embedded ==
    { [k |-> "nomatch", json |-> FALSE], [k |-> "text", json |-> FALSE] } \cup
    { [k |-> "text", json |-> TRUE, data |-> r] :
        r \in SeqsUpTo(EmbeddedRows, MaxRows) }

\* matches of the inline "Image:" pattern: code, name and four digit groups
InlineMatches ==
    [code : {"NOR"}, name : {"Norway"}, gold : {NumStr(1)}, silver : {NumStr(0)},
     bronze : {NumStr(0)}, total : {NumStr(0), NumStr(1)}]

\* matches of the table-row pattern: code, name and three digit groups
TableMatches ==
    [code : {"ITA"}, name : {"Italy"}, gold : {NumStr(0)},
     silver : {NumStr(1)}, bronze : {NumStr(0)}, total : {Undef}]

\* matches of the wiki row pattern: the name text (tags stripped) and four
\* digit groups; code is the name's first three letters in upper case
WikiMatches ==
    [name : {"Norway"}, gold : {NumStr(0), NumStr(1)},
     silver : {NumStr(0)}, bronze : {NumStr(0)}, total : {NumStr(1)}]

PageTexts ==
    [k : {"html"}, embedded : Embedded,
     inline : SeqsUpTo(InlineMatches, MaxMatches),
     table : SeqsUpTo(TableMatches, MaxMatches)]

WikiTexts ==
    { [k |-> "html", wikitable |-> [k |-> "nomatch"]] } \cup
    { [k |-> "html", wikitable |-> [k |-> "table", rows |-> r]] :
        r \in SeqsUpTo(WikiMatches, MaxMatches) }

-----------------------------------------------------------------------------
(* Transport Layer *)

fn(s) == IF s = "api" THEN "httpGetJson" ELSE "httpGetText"

url(s) ==
    CASE s = "api" -> "API_URL" [] s = "page" -> "PAGE_URL" [] s = "wiki" -> "WIKI_URL"

Call(s, via) == [fn |-> fn(s), url |-> url(s), via |-> via]

FetchError(m) == [k |-> "error", from |-> "fetch", msg |-> m]
CurlError(m) == [k |-> "error", from |-> "curl", msg |-> m]

\* the texts a source may answer with
Texts(s) ==
    CASE s = "api" -> ApiTexts [] s = "page" -> PageTexts [] s = "wiki" -> WikiTexts

\* the inner catch throwing its own error
rethrowCurlErr(e, ce) == ce

\* what the inner catch throws: throw err
rethrow(e, ce) == e

\* httpGetJson(url) / httpGetText(url) is called: fetch(url, opts) is issued
StartFetch(s) ==
    /\ pc' = "fetch"
    /\ site' = s
    /\ err' = None
    /\ curlErr' = None
    /\ stdout' = None
    /\ ret' = None
    /\ thrown' = None
    /\ inflight' = {"fetch"}
    /\ calls' = Append(calls, Call(s, "fetch"))

\* the outer catch: err is caught and curl is spawned
CatchAndCurl(e) ==
    /\ pc' = "curl"
    /\ err' = e
    /\ inflight' = {"curl"}
    /\ calls' = Append(calls, Call(site, "curl"))
    /\ UNCHANGED <<site, curlErr, stdout, ret, thrown, apiErr, pageHtml, parsed,
                   wikiHtml, teams, sent, logged>>

\* fetch rejects: a network error
FetchRejects ==
    /\ pc = "fetch"
    /\ CatchAndCurl(FetchError("fetch failed"))
    /\ UNCHANGED pureVars

\* fetch resolves with a response that is not ok: throw new Error(`HTTP ...`)
FetchNotOk ==
    /\ pc = "fetch"
    /\ CatchAndCurl(FetchError("HTTP 500"))
    /\ UNCHANGED pureVars

\* fetch resolves with an ok response: res.json() / res.text() is awaited
FetchOk ==
    /\ pc = "fetch"
    /\ pc' = "body"
    /\ inflight' = {"body"}
    /\ UNCHANGED <<site, err, curlErr, stdout, ret, thrown, calls, apiErr,
                   pageHtml, parsed, wikiHtml, teams, sent, logged>>
    /\ UNCHANGED pureVars

\* res.json() rejects (the body is no JSON) or res.text() rejects (the body
\* cannot be read)
BodyRejects ==
    /\ pc = "body"
    /\ CatchAndCurl(FetchError(IF site = "api" THEN "SyntaxError" ELSE "terminated"))
    /\ UNCHANGED pureVars

\* res.json() / res.text() resolves: the direct attempt returns its value
BodyResolves ==
    /\ pc = "body"
    /\ \E t \in Texts(site) :
          /\ site = "api" => t.json
          /\ ret' = IF site = "api" THEN JSONparse(t).value ELSE t
    /\ pc' = "ret"
    /\ inflight' = {}
    /\ UNCHANGED <<site, err, curlErr, stdout, thrown, calls, apiErr, pageHtml,
                   parsed, wikiHtml, teams, sent, logged>>
    /\ UNCHANGED pureVars

\* execFileAsync('curl', ...) rejects: the inner catch throws
CurlFails ==
    /\ pc = "curl"
    /\ curlErr' = CurlError("Command failed")
    /\ thrown' = rethrow(err, curlErr')
    /\ pc' = "threw"
    /\ inflight' = {}
    /\ UNCHANGED <<site, err, stdout, ret, calls, apiErr, pageHtml, parsed,
                   wikiHtml, teams, sent, logged>>
    /\ UNCHANGED pureVars

\* curl succeeds but JSON.parse(stdout) throws: the inner catch throws
CurlNotJson ==
    /\ pc = "curl"
    /\ site = "api"
    /\ \E t \in Texts(site) :
          /\ JSONparse(t).k = "throw"
          /\ stdout' = t
          /\ curlErr' = CurlError(JSONparse(t).error.msg)
    /\ thrown' = rethrow(err, curlErr')
    /\ pc' = "threw"
    /\ inflight' = {}
    /\ UNCHANGED <<site, err, ret, calls, apiErr, pageHtml, parsed, wikiHtml,
                   teams, sent, logged>>
    /\ UNCHANGED pureVars

\* curl succeeds: return JSON.parse(stdout) / return stdout
CurlOk ==
    /\ pc = "curl"
    /\ \E t \in Texts(site) :
          /\ site = "api" => JSONparse(t).k = "return"
          /\ stdout' = t
          /\ ret' = IF site = "api" THEN JSONparse(t).value ELSE t
    /\ pc' = "ret"
    /\ inflight' = {}
    /\ UNCHANGED <<site, err, curlErr, thrown, calls, apiErr, pageHtml, parsed,
                   wikiHtml, teams, sent, logged>>
    /\ UNCHANGED pureVars

-----------------------------------------------------------------------------
(* Fallback Orchestrator and the GET /api/medals handler *)

Respond200(list) ==
    [status |-> 200, cacheControl |-> "no-store",
     body |-> [k |-> "report", updatedAt |-> "now", source |-> url("page"),
               scoring |-> [gold |-> 6, silver |-> 3, bronze |-> 2],
               teams |-> list]]

\* a 500 answer carrying the error's message
Respond500Leaky(e) ==
    [status |-> 500, cacheControl |-> "", body |-> [k |-> "error", error |-> e.msg]]

\* res.status(500).json({ error: 'Unable to load medal data' })
Respond500(e) ==
    [status |-> 500, cacheControl |-> "",
     body |-> [k |-> "error", error |-> "Unable to load medal data"]]

\* the transport call is over: its locals are gone
Settled ==
    /\ err' = None
    /\ curlErr' = None
    /\ stdout' = None
    /\ ret' = None
    /\ thrown' = None
    /\ inflight' = {}

\* fetchMedals returns list: the handler's try block answers
Succeed(list) ==
    /\ pc' = "done"
    /\ teams' = list
    /\ sent' = Append(sent, Respond200(list))
    /\ Settled
    /\ UNCHANGED <<site, calls, logged>>

\* fetchMedals rejects with e: the handler's catch block logs and answers
Fail(e) ==
    /\ pc' = "done"
    /\ logged' = e
    /\ sent' = Append(sent, Respond500(e))
    /\ Settled
    /\ UNCHANGED <<site, calls>>

\* GET /api/medals arrives: fetchMedals, fetchApiJson, httpGetJson(API_URL)
Request ==
    /\ pc = "idle"
    /\ StartFetch("api")
    /\ UNCHANGED <<apiErr, pageHtml, parsed, wikiHtml, teams, sent, logged>>
    /\ UNCHANGED pureVars

\* fetchMedals without the return in front of await fetchApiJson()
ApiReturnsThenPage ==
    /\ pc = "ret" /\ site = "api"
    /\ fetchApiJsonMap(ret).k = "return"
    /\ teams' = fetchApiJsonMap(ret).value
    /\ StartFetch("page")
    /\ UNCHANGED <<apiErr, pageHtml, parsed, wikiHtml, sent, logged>>
    /\ UNCHANGED pureVars

\* httpGetJson resolved and fetchApiJson returns a non-empty sorted list
ApiReturns ==
    /\ pc = "ret" /\ site = "api"
    /\ fetchApiJsonMap(ret).k = "return"
    /\ Succeed(fetchApiJsonMap(ret).value)
    /\ UNCHANGED <<apiErr, pageHtml, parsed, wikiHtml>>
    /\ UNCHANGED pureVars

\* httpGetJson resolved but fetchApiJson throws while mapping: fetchMedals
\* catches, warns and calls httpGetText(PAGE_URL)
ApiMapThrows ==
    /\ pc = "ret" /\ site = "api"
    /\ fetchApiJsonMap(ret).k = "throw"
    /\ apiErr' = fetchApiJsonMap(ret).error
    /\ StartFetch("page")
    /\ UNCHANGED <<pageHtml, parsed, wikiHtml, teams, sent, logged>>
    /\ UNCHANGED pureVars

\* httpGetJson rejected: fetchMedals catches, warns and calls
\* httpGetText(PAGE_URL)
ApiThrows ==
    /\ pc = "threw" /\ site = "api"
    /\ apiErr' = thrown
    /\ StartFetch("page")
    /\ UNCHANGED <<pageHtml, parsed, wikiHtml, teams, sent, logged>>
    /\ UNCHANGED pureVars

\* the primary page's text arrived and parseFromHtml found teams
PageParsed ==
    /\ pc = "ret" /\ site = "page"
    /\ Len(parseFromHtml(ret).teams) # 0
    /\ parsed' = parseFromHtml(ret)
    /\ Succeed(parseFromHtml(ret).teams)
    /\ pageHtml' = ret
    /\ UNCHANGED <<apiErr, wikiHtml>>
    /\ UNCHANGED pureVars

\* fetchMedals without the secondary page: an empty parse is the end
PageEmptyGivesUp ==
    /\ pc = "ret" /\ site = "page"
    /\ Len(parseFromHtml(ret).teams) = 0
    /\ parsed' = parseFromHtml(ret)
    /\ teams' = parseFromHtml(ret).teams
    /\ pageHtml' = ret
    /\ Fail(Error("Could not parse medal table from source HTML"))
    /\ UNCHANGED <<apiErr, wikiHtml>>
    /\ UNCHANGED pureVars

\* the primary page's text arrived and parseFromHtml found nothing:
\* fetchMedals warns and calls httpGetText(WIKI_URL)
PageEmpty ==
    /\ pc = "ret" /\ site = "page"
    /\ Len(parseFromHtml(ret).teams) = 0
    /\ parsed' = parseFromHtml(ret)
    /\ teams' = parseFromHtml(ret).teams
    /\ pageHtml' = ret
    /\ StartFetch("wiki")
    /\ UNCHANGED <<apiErr, wikiHtml, sent, logged>>
    /\ UNCHANGED pureVars

\* httpGetText(PAGE_URL) rejected: nothing in fetchMedals catches it
PageThrows ==
    /\ pc = "threw" /\ site = "page"
    /\ Fail(thrown)
    /\ UNCHANGED <<apiErr, pageHtml, parsed, wikiHtml, teams>>
    /\ UNCHANGED pureVars

\* the secondary page's text arrived and parseWikipedia found teams
WikiParsed ==
    /\ pc = "ret" /\ site = "wiki"
    /\ Len(parseWikipedia(ret)) # 0
    /\ Succeed(parseWikipedia(ret))
    /\ wikiHtml' = ret
    /\ UNCHANGED <<apiErr, pageHtml, parsed>>
    /\ UNCHANGED pureVars

\* the secondary page's text arrived and parseWikipedia found nothing:
\* throw new Error('Could not parse medal table from source HTML')
WikiEmpty ==
    /\ pc = "ret" /\ site = "wiki"
    /\ Len(parseWikipedia(ret)) = 0
    /\ teams' = parseWikipedia(ret)
    /\ wikiHtml' = ret
    /\ Fail(Error("Could not parse medal table from source HTML"))
    /\ UNCHANGED <<apiErr, pageHtml, parsed>>
    /\ UNCHANGED pureVars

\* httpGetText(WIKI_URL) rejected
WikiThrows ==
    /\ pc = "threw" /\ site = "wiki"
    /\ Fail(thrown)
    /\ UNCHANGED <<apiErr, pageHtml, parsed, wikiHtml, teams>>
    /\ UNCHANGED pureVars

\* the state of a request that has not started; nothing is kept between
\* requests
Fresh ==
    /\ pc = "idle"
    /\ site = "none"
    /\ err = None
    /\ curlErr = None
    /\ stdout = None
    /\ ret = None
    /\ thrown = None
    /\ inflight = {}
    /\ calls = <<>>
    /\ apiErr = None
    /\ pageHtml = None
    /\ parsed = None
    /\ wikiHtml = None
    /\ teams = <<>>
    /\ sent = <<>>
    /\ logged = None

\* the response is out and the next request finds nothing of this one
NextRequest ==
    /\ pc = "done"
    /\ pc' = "idle"
    /\ site' = "none"
    /\ Settled
    /\ calls' = <<>>
    /\ apiErr' = None
    /\ pageHtml' = None
    /\ parsed' = None
    /\ wikiHtml' = None
    /\ teams' = <<>>
    /\ sent' = <<>>
    /\ logged' = None
    /\ UNCHANGED pureVars

Init ==
    /\ Fresh
    /\ entries = <<>>
    /\ normed = <<>>
    /\ sorted = <<>>
    /\ ppc = "off"

Next ==
    \/ Request
    \/ FetchRejects
    \/ FetchNotOk
    \/ FetchOk
    \/ BodyRejects
    \/ BodyResolves
    \/ CurlFails
    \/ CurlNotJson
    \/ CurlOk
    \/ ApiReturns
    \/ ApiMapThrows
    \/ ApiThrows
    \/ PageParsed
    \/ PageEmpty
    \/ PageThrows
    \/ WikiParsed
    \/ WikiEmpty
    \/ WikiThrows
    \/ NextRequest

Spec == Init /\ [][Next]_vars

-----------------------------------------------------------------------------
(* The normaliser and the sorter on their own: every list of raw records  *)
(* the row mapper can hand to withScore is normalised, then ranked.       *)

PureCells ==
    [country : {[k |-> "string", s |-> "Norway"], [k |-> "object", text |-> "Italy"]},
     gold : {Num(0), Num(1), BadStr},
     silver : {NumStr(0), NumStr(2)},
     bronze : {Num(0), NumStr(3)},
     total : {Undef, Num(0), Num(5)}]

PureEntries == { rowEntry(Row(c)).value : c \in PureCells }

PureInit ==
    /\ Fresh
    /\ entries \in SeqsUpTo(PureEntries, MaxTeams)
    /\ normed = <<>>
    /\ sorted = <<>>
    /\ ppc = "raw"

\* rows.map(row => withScore({...}))
Normalize ==
    /\ ppc = "raw"
    /\ normed' = [i \in 1..Len(entries) |-> withScore(entries[i])]
    /\ ppc' = "normed"
    /\ UNCHANGED <<entries, sorted>>
    /\ UNCHANGED pipeVars

\* sortTeams(teams)
Sort ==
    /\ ppc = "normed"
    /\ sorted' = sortTeams(normed)
    /\ ppc' = "sorted"
    /\ UNCHANGED <<entries, normed>>
    /\ UNCHANGED pipeVars

PureNext ==
    \/ Normalize
    \/ Sort

SpecPure == PureInit /\ [][PureNext]_vars

-----------------------------------------------------------------------------
(* Vocabulary of the properties *)

\* the arrangements of list
Orders(list) ==
    LET I == 1..Len(list)
    IN  { [i \in I |-> list[p[i]]] :
            p \in { f \in [I -> I] : \A i, j \in I : f[i] = f[j] => i = j } }

Tried(u) == \E i \in 1..Len(calls) : calls[i].url = u

IsNumber(x) == x.k = "number"

AllNumbers(list) ==
    \A i \in 1..Len(list) :
        /\ IsNumber(list[i].gold)
        /\ IsNumber(list[i].silver)
        /\ IsNumber(list[i].bronze)
        /\ IsNumber(list[i].total)

\* a outranks b: the first of score, gold, silver, bronze, total on which
\* they differ is greater in a
Outranks(a, b) ==
    LET ks == <<"score", "gold", "silver", "bronze", "total">>
    IN  \E n \in 1..5 :
           /\ \A m \in 1..(n - 1) :
                 /\ IsNumber(a[ks[m]]) /\ IsNumber(b[ks[m]])
                 /\ a[ks[m]].v = b[ks[m]].v
           /\ IsNumber(a[ks[n]]) /\ IsNumber(b[ks[n]])
           /\ a[ks[n]].v > b[ks[n]].v

\* no team stands behind a team it outranks
Ranked(list) ==
    \A i, j \in 1..Len(list) : i < j => ~Outranks(list[j], list[i])

KeysEqual(a, b) ==
    \A f \in {"score", "gold", "silver", "bronze", "total"} :
        IsNumber(a[f]) /\ IsNumber(b[f]) /\ a[f].v = b[f].v

\* out holds the elements of in, those with equal keys in their order in in
StableOrderOf(out, in) ==
    LET I == 1..Len(in)
    IN  /\ Len(out) = Len(in)
        /\ \E p \in { f \in [I -> I] : \A i, j \in I : f[i] = f[j] => i = j } :
              /\ \A i \in I : out[p[i]] = in[i]
              /\ \A i, j \in I :
                    (i < j /\ KeysEqual(in[i], in[j])) => p[i] < p[j]

-----------------------------------------------------------------------------
(* Properties of the request pipeline (Spec) *)

\* C1: a 500 answer is sent only after all three tiers (API, primary page,
\* secondary page) have been attempted; a failure at an earlier tier, a
\* transport failure of the primary page's fetch included, moves on to the
\* next tier.
C1_TerminalOnlyAfterAllTiers ==
    \A i \in 1..Len(sent) :
        sent[i].status = 500 =>
            Tried("API_URL") /\ Tried("PAGE_URL") /\ Tried("WIKI_URL")

\* What does hold of a 500 answer: the API and the primary page were tried,
\* and the secondary page too unless the primary page's fetch was rejected.
TerminalAfterApiAndPage ==
    \A i \in 1..Len(sent) :
        sent[i].status = 500 =>
            /\ Tried("API_URL") /\ Tried("PAGE_URL")
            /\ Tried("WIKI_URL") \/ (logged.from = "fetch" /\ parsed = None)

\* fetchApiJson returns a non-empty collection for data
ApiYieldsTeams(data) ==
    /\ data.standings
    /\ Len(data.rows) > 0
    /\ \A i \in 1..Len(data.rows) :
          data.rows[i].k = "row" /\ data.rows[i].cells.country.k # "null"

\* C2: when fetchApiJson returns a non-empty team collection, that
\* collection is the answer of the request at once and no httpGetText call
\* is made in the request.
C2_ApiSuccessSkipsPages ==
    /\ [](apiErr = None => \A i \in 1..Len(calls) : calls[i].fn = "httpGetJson")
    /\ [][(pc = "ret" /\ site = "api" /\ ApiYieldsTeams(ret)) =>
             /\ pc' = "done"
             /\ calls' = calls
             /\ \A i \in 1..Len(calls') : calls'[i].url = "API_URL"
             /\ teams' \in Orders(mapRows(ret.rows).value)
             /\ sent' = <<Respond200(teams')>>]_vars

C2_Witness ==
    /\ pc = "done"
    /\ apiErr = None
    /\ Len(teams) > 0
    /\ Len(sent) = 1 /\ sent[1].status = 200
    /\ Len(calls) = 2

\* C3: in httpGetJson and httpGetText curl runs only after the direct
\* attempt has failed and never beside it; when the direct attempt failed and
\* curl succeeded (printing JSON, for httpGetJson) the call resolves with
\* curl's result; when both failed the call rejects with the direct attempt's
\* error, not curl's.
C3_CurlOnlyAfterDirectFailure ==
    /\ Cardinality(inflight) <= 1
    /\ "curl" \in inflight => err # None /\ err.from = "fetch"
    /\ \A i \in 1..Len(calls) :
          calls[i].via = "curl" =>
              /\ i > 1
              /\ calls[i - 1] = [calls[i] EXCEPT !.via = "fetch"]
    /\ (pc \in {"fetch", "body"}) => err = None /\ stdout = None
    /\ (pc = "ret" /\ err = None) => stdout = None
    /\ (pc = "ret" /\ err # None) =>
          /\ stdout # None
          /\ ret = IF site = "api" THEN stdout.data ELSE stdout
    /\ (stdout # None /\ (site = "api" => stdout.json)) => pc = "ret"
    /\ pc = "threw" =>
          /\ err # None /\ curlErr # None
          /\ thrown = err
          /\ thrown.from = "fetch"
          /\ thrown # curlErr

C3_Witness ==
    /\ pc = "ret"
    /\ site = "api"
    /\ err = FetchError("fetch failed")
    /\ stdout # None
    /\ ret = stdout.data
    /\ ret.standings /\ Len(ret.rows) > 0

\* C4: the secondary page is fetched exactly when, earlier in the request,
\* the API tier failed, the primary page's text was fetched and parseFromHtml
\* returned no record; the tiers run one after another in the order API,
\* primary page, secondary page.
C4_WikiIffPrimaryEmpty ==
    LET tier(u) == CASE u = "API_URL" -> 1 [] u = "PAGE_URL" -> 2 [] u = "WIKI_URL" -> 3
    IN  /\ Tried("WIKI_URL") <=>
              /\ apiErr # None
              /\ pageHtml # None
              /\ parsed # None
              /\ Len(parsed.teams) = 0
        /\ Tried("PAGE_URL") => apiErr # None
        /\ \A i, j \in 1..Len(calls) :
              i < j => tier(calls[i].url) <= tier(calls[j].url)
        /\ Cardinality(inflight) <= 1
        /\ (pc \in {"fetch", "body", "curl"}) =>
              calls[Len(calls)].url = url(site)

C4_Witness ==
    /\ site = "wiki"
    /\ pc = "ret"
    /\ Tried("WIKI_URL")
    /\ parsed # None
    /\ Len(parsed.teams) = 0

\* the API answer maps to zero records
ZeroRecords(data) == ~data.standings \/ Len(data.rows) = 0

\* C5: when the API answer maps to zero records fetchApiJson throws 'API
\* returned no medal entries'; fetchMedals then does what it does after a
\* thrown transport error, fetching the primary page, and no answer reports
\* success with zero teams.
C5_EmptyApiFallsBack ==
    /\ [](\A i \in 1..Len(sent) :
             sent[i].status = 200 => Len(sent[i].body.teams) > 0)
    /\ [][/\ (pc = "ret" /\ site = "api" /\ ZeroRecords(ret)) =>
                apiErr' = Error("API returned no medal entries")
          /\ (pc \in {"ret", "threw"} /\ site = "api"
                 /\ (pc = "ret" => ZeroRecords(ret))) =>
                /\ pc' = "fetch"
                /\ site' = "page"
                /\ calls' = Append(calls, Call("page", "fetch"))
                /\ apiErr' # None
                /\ sent' = <<>>]_vars

C5_Witness ==
    /\ apiErr = Error("API returned no medal entries")
    /\ Tried("PAGE_URL")
    /\ parsed # None

JsonRecords(html) ==
    IF html.embedded.k # "nomatch" /\ html.embedded.json
          /\ mapRows(html.embedded.data).k = "return"
    THEN mapRows(html.embedded.data).value
    ELSE <<>>

-----------------------------------------------------------------------------
(* Properties of the normaliser and the sorter (SpecPure) *)

\* C7: withScore sets total to Number(total) whenever the raw record has a
\* total, and to gold + silver + bronze when it has none.
C7_TotalVerbatim ==
    ppc # "raw" =>
        \A i \in 1..Len(entries) :
            normed[i].total =
                IF entries[i].total.k # "undefined"
                THEN Number(entries[i].total)
                ELSE Add(Add(normed[i].gold, normed[i].silver), normed[i].bronze)

\* C8: sortTeams returns a permutation of its input in which no team stands
\* behind a team it outranks on (score, gold, silver, bronze, total), teams
\* equal on all five keys keeping their input order.
C8_SortedStable ==
    ppc = "sorted" => StableOrderOf(sorted, normed) /\ Ranked(sorted)

\* C9: every team withScore produces has gold, silver and bronze that are
\* finite non-negative whole numbers.
C9_CountsAreNumbers ==
    ppc # "raw" =>
        \A i \in 1..Len(normed) :
            \A f \in {"gold", "silver", "bronze"} :
                IsNumber(normed[i][f]) /\ normed[i][f].v >= 0

\* What does hold of total: Number(total) when the raw total is truthy,
\* gold + silver + bronze when it is absent, 0 or the empty string.
TotalWhenTruthy ==
    ppc # "raw" =>
        \A i \in 1..Len(entries) :
            normed[i].total =
                IF Truthy(entries[i].total)
                THEN Number(entries[i].total)
                ELSE Add(Add(normed[i].gold, normed[i].silver), normed[i].bronze)

\* What does hold of sortTeams: on teams whose counts are all numbers the
\* result is ranked and stable.
SortedWhenCountsAreNumbers ==
    (ppc = "sorted" /\ AllNumbers(normed)) =>
        StableOrderOf(sorted, normed) /\ Ranked(sorted)

=============================================================================
